---- MODULE Spec2Model ----
(***************************************************************************)
(* Model of src/helpers/utils.js of nuxt-i18n 6.0.0: the locale-code       *)
(* extractor, the page-options resolver, the route-locale extractor, the   *)
(* domain-locale resolver and the store synchronizer.                      *)
(*                                                                         *)
(* JavaScript values are tagged records: t is the value's kind.  Strings   *)
(* are sequences of one-character strings, so that regular-expression      *)
(* matching, replace, split and case folding are computed character by     *)
(* character.  A TypeError raised by a property access on null/undefined   *)
(* is the value Throw.                                                     *)
(***************************************************************************)
EXTENDS Integers, Sequences, FiniteSets, TLC

VARIABLES call, ret, pc, vuex, store, dispatched, settled

vars == <<call, ret, pc, vuex, store, dispatched, settled>>

(***************************************************************************)
(* Bounds of the model.                                                    *)
(***************************************************************************)
MaxLocales == 2
MaxNameLen == 4
MaxChunkLen == 4

(***************************************************************************)
(* JavaScript values.                                                      *)
(***************************************************************************)
Undefined == [t |-> "undefined"]
Null == [t |-> "null"]
False == [t |-> "false"]
True == [t |-> "true"]
Num == [t |-> "number"]
Throw == [t |-> "throw"]
Str(s) == [t |-> "string", v |-> s]
Arr(s) == [t |-> "array", v |-> s]
Obj(fields) == [t |-> "object", f |-> fields]

Nullish(x) == x.t \in {"undefined", "null"}

\* JavaScript truthiness of the values the model uses.
Truthy(x) ==
  CASE x.t \in {"undefined", "null", "false"} -> FALSE
    [] x.t = "string" -> Len(x.v) > 0
    [] OTHER -> TRUE

\* x[key] for a non-nullish x: own field of an object, undefined otherwise
\* (strings, numbers and booleans have no such property).
Prop(x, key) ==
  IF x.t = "object" /\ key \in DOMAIN x.f THEN x.f[key] ELSE Undefined

LOCALE_CODE_KEY == "code"
LOCALE_DOMAIN_KEY == "domain"

(***************************************************************************)
(* Characters and strings.                                                 *)
(***************************************************************************)
Chars == {"a", "e", "E", "-", "/"}

\* Case folding of the 'i' flag of RegExp.
Fold(c) == IF c = "E" THEN "e" ELSE c

FoldStr(s) == [i \in 1..Len(s) |-> Fold(s[i])]

StrSet(n) == UNION {[1..k -> Chars] : k \in 0..n}

\* s matches the literal lit at offset i (0-based), ignoring case.
LitAt(s, i, lit) ==
  /\ i + Len(lit) <= Len(s)
  /\ \A k \in 1..Len(lit) : Fold(s[i + k]) = Fold(lit[k])

Slice(s, i, n) == [k \in 1..n |-> s[i + k]]

(***************************************************************************)
(* getLocaleCodes                                                          *)
(***************************************************************************)
getLocaleCodes(locales0) ==
  LET locales == IF locales0.t = "undefined" THEN Arr(<<>>) ELSE locales0
  IN  IF locales.t = "null" THEN Throw
      ELSE IF Len(locales.v) > 0
      THEN LET first == locales.v[1]
           IN  IF first.t = "string" THEN locales
               ELSE IF Nullish(first) THEN Throw
               ELSE IF Prop(first, LOCALE_CODE_KEY).t = "string"
               THEN IF \E i \in 1..Len(locales.v) : Nullish(locales.v[i])
                    THEN Throw
                    ELSE Arr([i \in 1..Len(locales.v) |->
                                Prop(locales.v[i], LOCALE_CODE_KEY)])
               ELSE Arr(<<>>)
      ELSE Arr(<<>>)

(***************************************************************************)
(* getPageOptions                                                          *)
(***************************************************************************)
\* obj[key] where key is a JavaScript value used as a property name.
Index(obj, key) == IF key.t = "string" THEN Prop(obj, key.v) ELSE Undefined

\* Offset of the leftmost match of the literal lit in s, ignoring case;
\* -1 when there is none.
FirstMatch(s, lit) ==
  LET hits == {i \in 0..Len(s) : LitAt(s, i, lit)}
  IN  IF hits = {} THEN -1
      ELSE CHOOSE i \in hits : \A j \in hits : i <= j

\* s.replace(new RegExp(lit, 'i'), ''): the leftmost match is removed.
ReplaceFirst(s, lit) ==
  LET i == FirstMatch(s, lit)
  IN  IF i < 0 THEN s
      ELSE Slice(s, 0, i) \o Slice(s, i + Len(lit), Len(s) - i - Len(lit))

\* The key under which the page is looked up (line 40-41).
ChunkName(route, pagesDir) ==
  IF Truthy(Prop(route, "chunkName"))
  THEN Str(ReplaceFirst(Prop(route, "chunkName").v, pagesDir.v \o <<"/">>))
  ELSE Prop(route, "name")

\* Mutant: the filter keeps only the locales with a truthy entry.
EnabledLocales_Truthy(codes, pageOptions) ==
  SelectSeq(codes, LAMBDA locale : Truthy(Index(pageOptions, locale)))

\* options.locales.filter(locale => pageOptions[locale] !== false)
EnabledLocales(codes, pageOptions) ==
  SelectSeq(codes, LAMBDA locale : Index(pageOptions, locale).t # "false")

\* Mutant: the default locale's path is tried before the locale's own.
PathFor_DefaultFirst(locale, pageOptions, defaultLocale) ==
  IF Index(pageOptions, defaultLocale).t = "string"
  THEN Index(pageOptions, defaultLocale)
  ELSE IF Index(pageOptions, locale).t = "string"
  THEN Index(pageOptions, locale)
  ELSE Undefined

\* The path given to one enabled locale: Undefined when no entry is set.
PathFor(locale, pageOptions, defaultLocale) ==
  IF Index(pageOptions, locale).t = "string"
  THEN Index(pageOptions, locale)
  ELSE IF Index(pageOptions, defaultLocale).t = "string"
  THEN Index(pageOptions, defaultLocale)
  ELSE Undefined

\* The paths object built by the forEach of lines 56-65.
BuildPaths(locs, pageOptions, defaultLocale) ==
  LET keys == {locs[i] : i \in 1..Len(locs)}
      set == {l \in keys : PathFor(l, pageOptions, defaultLocale).t = "string"}
  IN  [l \in set |-> PathFor(l, pageOptions, defaultLocale)]

Options(locs, paths) == [t |-> "options", locales |-> locs, paths |-> paths]

\* Mutant: routing is taken as disabled for every falsy entry.
RoutingDisabled_Falsy(pageOptions) == ~Truthy(pageOptions)

\* pageOptions === false (line 44)
RoutingDisabled(pageOptions) == pageOptions.t = "false"

getPageOptions(route, pages, locales, pagesDir, defaultLocale) ==
  LET codes == getLocaleCodes(locales)
  IN  IF codes = Throw \/ Nullish(route) \/ Nullish(pages) THEN Throw
      ELSE LET pageOptions == Index(pages, ChunkName(route, pagesDir))
           IN  IF RoutingDisabled(pageOptions) THEN False
               ELSE IF ~Truthy(pageOptions) THEN Options(codes.v, <<>>)
               ELSE LET locs == EnabledLocales(codes.v, pageOptions)
                    IN  Options(locs, BuildPaths(locs, pageOptions, defaultLocale))

(***************************************************************************)
(* getLocaleFromRoute                                                      *)
(***************************************************************************)
\* A parameter's default value (line 80).
Default(x, d) == IF x.t = "undefined" THEN d ELSE x

\* The text Array.prototype.join gives one element: '' for null/undefined.
JoinPart(x) == IF x.t = "string" THEN x.v ELSE <<>>

\* The alternatives of `(${codes.join('|')})`: one per code; the join of an
\* empty list is '', so the group is `()`, one empty alternative.
Alternatives(codes) ==
  IF codes = <<>> THEN << <<>> >>
  ELSE [i \in 1..Len(codes) |-> JoinPart(codes[i])]

\* `${sep}(${alts})(?:${sep}${suffix})?$` matches name from offset i with
\* alternative alt.
NameMatchAt(name, i, sep, alt, suffix) ==
  LET e == i + Len(sep) + Len(alt)
  IN  /\ LitAt(name, i, sep)
      /\ LitAt(name, i + Len(sep), alt)
      /\ \/ e = Len(name)
         \/ /\ LitAt(name, e, sep \o suffix)
            /\ e + Len(sep) + Len(suffix) = Len(name)

\* route.name.match(regexp): Null, or the text of the first group of the
\* leftmost match, the first alternative that matches there (lines 86-90).
MatchName(name, sep, alts, suffix) ==
  LET hits == {i \in 0..Len(name) :
                 \E j \in 1..Len(alts) : NameMatchAt(name, i, sep, alts[j], suffix)}
  IN  IF hits = {} THEN Null
      ELSE LET i == CHOOSE h \in hits : \A h2 \in hits : h <= h2
               js == {j \in 1..Len(alts) : NameMatchAt(name, i, sep, alts[j], suffix)}
               j == CHOOSE k \in js : \A k2 \in js : k <= k2
           IN  Str(Slice(name, i + Len(sep), Len(alts[j])))

\* `^/(${alts})/` matches path with alternative alt.
PathMatchWith(path, alt) ==
  /\ LitAt(path, 0, <<"/">>)
  /\ LitAt(path, 1, alt)
  /\ LitAt(path, 1 + Len(alt), <<"/">>)

\* route.path.match(regexp) (lines 93-97).
MatchPath(path, alts) ==
  LET js == {j \in 1..Len(alts) : PathMatchWith(path, alts[j])}
  IN  IF js = {} THEN Null
      ELSE LET j == CHOOSE k \in js : \A k2 \in js : k <= k2
           IN  Str(Slice(path, 1, Len(alts[j])))

getLocaleFromRoute(route0, sep0, suffix0, locales) ==
  LET route == Default(route0, Obj(<<>>))
      routesNameSeparator == Default(sep0, Str(<<>>))
      defaultLocaleRouteNameSuffix == Default(suffix0, Str(<<>>))
      codes == getLocaleCodes(locales)
  IN  IF codes = Throw \/ route.t = "null" THEN Throw
      ELSE IF Truthy(Prop(route, "name"))
      THEN MatchName(Prop(route, "name").v, routesNameSeparator.v,
                     Alternatives(codes.v), defaultLocaleRouteNameSuffix.v)
      ELSE IF Truthy(Prop(route, "path"))
      THEN MatchPath(Prop(route, "path").v, Alternatives(codes.v))
      ELSE Null

(***************************************************************************)
(* getLocaleDomain                                                         *)
(***************************************************************************)
\* The pieces of s between the occurrences of the character sep, in order
\* (String.prototype.split with a one-character separator).
RECURSIVE Split(_, _)
Split(s, sep) ==
  LET cuts == {i \in 1..Len(s) : s[i] = sep}
  IN  IF cuts = {} THEN <<s>>
      ELSE LET i == CHOOSE c \in cuts : \A c2 \in cuts : c <= c2
           IN  <<SubSeq(s, 1, i - 1)>> \o Split(SubSeq(s, i + 1, Len(s)), sep)

\* window.location.href.split('/')[2]
HrefAuthority(href) ==
  LET parts == Split(href, "/")
  IN  IF Len(parts) >= 3 THEN Str(parts[3]) ELSE Undefined

\* The ambient context env: browser (process.browser), href
\* (window.location.href), xForwardedHost and host (req.headers),
\* forwardedHost and locales (app.i18n).

\* Mutant: the forwarded host is used even when the header is not set.
getForwarded_NoFallback(env) ==
  IF env.browser THEN HrefAuthority(env.href) ELSE env.xForwardedHost

getForwarded(env) ==
  IF env.browser THEN HrefAuthority(env.href)
  ELSE IF Truthy(env.xForwardedHost) THEN env.xForwardedHost ELSE env.host

getHostname(env) ==
  IF env.browser THEN HrefAuthority(env.href) ELSE env.host

\* app.i18n.locales.find(l => l[LOCALE_DOMAIN_KEY] === hostname): the index
\* of the first match, 0 when there is none, -1 when the callback throws on
\* a null/undefined element before a match is found.
FindDomain(locales, hostname) ==
  LET stops == {i \in 1..Len(locales) :
                  \/ Nullish(locales[i])
                  \/ Prop(locales[i], LOCALE_DOMAIN_KEY) = hostname}
  IN  IF stops = {} THEN 0
      ELSE LET i == CHOOSE k \in stops : \A k2 \in stops : k <= k2
           IN  IF Nullish(locales[i]) THEN -1 ELSE i

getLocaleDomain(env) ==
  LET hostname == IF Truthy(env.forwardedHost) THEN getForwarded(env)
                  ELSE getHostname(env)
  IN  IF Truthy(hostname)
      THEN IF Nullish(env.locales) THEN Throw
           ELSE LET i == FindDomain(env.locales.v, hostname)
                IN  IF i < 0 THEN Throw
                    ELSE IF i > 0 THEN Prop(env.locales.v[i], LOCALE_CODE_KEY)
                    ELSE Null
      ELSE Null

(***************************************************************************)
(* syncVuex                                                                *)
(***************************************************************************)
Resolved == [t |-> "resolved"]
Rejected(reason) == [t |-> "rejected", reason |-> reason]

\* store.dispatch(vuex.moduleName + '/' + action, payload)
Dispatch(action, payload) ==
  [type |-> <<Prop(vuex, "moduleName"), action>>, payload |-> payload]

\* Mutant: the syncLocale flag is not consulted.
ShouldSyncLocale_NoFlag(locale) ==
  Truthy(vuex) /\ Truthy(store) /\ locale.t # "null"

\* vuex && store, and line 145
ShouldSyncLocale(locale) ==
  /\ Truthy(vuex) /\ Truthy(store)
  /\ locale.t # "null"
  /\ Truthy(Prop(vuex, "syncLocale"))

\* vuex && store, and line 148
ShouldSyncMessages(messages) ==
  /\ Truthy(vuex) /\ Truthy(store)
  /\ messages.t # "null"
  /\ Truthy(Prop(vuex, "syncMessages"))

\* Lines 148-151: the second dispatch is issued and awaited, or the
\* function's promise resolves.
MessagesStep ==
  IF ShouldSyncMessages(Default(call.messages, Null))
  THEN /\ dispatched' = Append(dispatched, Dispatch("setMessages", Default(call.messages, Null)))
       /\ pc' = "awaitMessages"
       /\ ret' = ret
  ELSE /\ dispatched' = dispatched
       /\ pc' = "returned"
       /\ ret' = Resolved

\* The call runs up to its first await (lines 143-146), or to its end.
SyncVuexStart ==
  /\ pc = "call"
  /\ call.fn = "syncVuex"
  /\ IF ShouldSyncLocale(Default(call.locale, Null))
     THEN /\ dispatched' = Append(dispatched, Dispatch("setLocale", Default(call.locale, Null)))
          /\ pc' = "awaitLocale"
          /\ ret' = ret
     ELSE MessagesStep
  /\ UNCHANGED <<call, vuex, store, settled>>

\* The awaited 'setLocale' dispatch resolves: the function goes on (line 148).
LocaleDispatchResolves ==
  /\ pc = "awaitLocale"
  /\ settled' = Append(settled, Resolved)
  /\ MessagesStep
  /\ UNCHANGED <<call, vuex, store>>

Failures == {"E1", "E2"}

\* Mutant: the rejection of the first dispatch is swallowed and the function
\* goes on to the second.
LocaleDispatchRejects_Swallowed ==
  /\ pc = "awaitLocale"
  /\ \E e \in Failures : settled' = Append(settled, Rejected(e))
  /\ MessagesStep
  /\ UNCHANGED <<call, vuex, store>>

\* The awaited 'setLocale' dispatch rejects: await throws, and the function's
\* promise rejects with the same reason.
LocaleDispatchRejects ==
  /\ pc = "awaitLocale"
  /\ \E e \in Failures :
       /\ settled' = Append(settled, Rejected(e))
       /\ ret' = Rejected(e)
  /\ pc' = "returned"
  /\ UNCHANGED <<call, vuex, store, dispatched>>

\* The awaited 'setMessages' dispatch resolves (line 149), and the function.
MessagesDispatchResolves ==
  /\ pc = "awaitMessages"
  /\ settled' = Append(settled, Resolved)
  /\ ret' = Resolved
  /\ pc' = "returned"
  /\ UNCHANGED <<call, vuex, store, dispatched>>

MessagesDispatchRejects ==
  /\ pc = "awaitMessages"
  /\ \E e \in Failures :
       /\ settled' = Append(settled, Rejected(e))
       /\ ret' = Rejected(e)
  /\ pc' = "returned"
  /\ UNCHANGED <<call, vuex, store, dispatched>>

(***************************************************************************)
(* Inputs.                                                                 *)
(***************************************************************************)
Codes == {<<"e">>, <<"a">>}
Domains == {<<"e">>, <<"a">>}

LocaleRecords ==
  {Obj([code |-> Str(c)]) : c \in Codes}
    \cup {Obj([code |-> Str(c), domain |-> Str(d)]) : c \in Codes, d \in Domains}

\* Every shape an element of the locale list can have.
LocaleElems ==
  {Str(c) : c \in Codes} \cup LocaleRecords
    \cup {Obj([domain |-> Str(<<"e">>)]), Null, Undefined, Num}

SeqsUpTo(S, n) == UNION {[1..k -> S] : k \in 0..n}

LocaleLists(n) == {Arr(s) : s \in SeqsUpTo(LocaleElems, n)} \cup {Undefined}

\* Partial functions from the set D to the set R.
PartialFns(D, R) == UNION {[S -> R] : S \in SUBSET D}

CustomPaths == {<<"/", "a">>, <<"/", "e">>}

\* A page's entry: routing disabled, nothing, a non-mapping, or a mapping
\* from locale code to false / custom path / another value.
PerLocaleValues == {False, True} \cup {Str(p) : p \in CustomPaths}
PageEntries ==
  {False, Null, True, Str(<<"/", "a">>)}
    \cup {Obj(m) : m \in PartialFns(Codes, PerLocaleValues)}

PageKeys == {<<"a">>}

PagesMaps ==
  {Obj(<<>>)} \cup {Obj([k \in {key} |-> e]) : key \in PageKeys, e \in PageEntries}

Route(chunkName, name, path) ==
  Obj([chunkName |-> chunkName, name |-> name, path |-> path])

PageLocaleElems ==
  {Str(c) : c \in Codes} \cup {Obj([code |-> Str(c)]) : c \in Codes}
    \cup {Obj([domain |-> Str(<<"e">>)]), Null}

PageLocaleLists(n) ==
  {Arr(s) : s \in SeqsUpTo(PageLocaleElems, n)} \cup {Undefined}

PageCall(route, pages, locales, pagesDir, defaultLocale) ==
  [fn |-> "getPageOptions", route |-> route, pages |-> pages,
   locales |-> locales, pagesDir |-> pagesDir, defaultLocale |-> defaultLocale]

\* Locale lists handed to getLocaleFromRoute: lists of code strings, lists
\* of records with a code, and the absent, empty and null-headed lists.
RouteLocaleLists(n) ==
  {Undefined, Arr(<<Null>>)}
    \cup {Arr(s) : s \in SeqsUpTo({Str(c) : c \in Codes}, n)}
    \cup {Arr(s) : s \in SeqsUpTo({Obj([code |-> Str(<<"E">>)]),
                                   Obj([code |-> Str(<<"a">>), domain |-> Str(<<"e">>)])},
                                  n)}

RouteCall(route, sep, suffix, locales) ==
  [fn |-> "getLocaleFromRoute", route |-> route, routesNameSeparator |-> sep,
   defaultLocaleRouteNameSuffix |-> suffix, locales |-> locales]

Separators == {Str(<<>>), Str(<<"-">>)}
Suffixes == {Str(<<>>), Str(<<"a">>)}

Hosts == {Undefined, Str(<<>>)} \cup {Str(d) : d \in Domains}

Hrefs == {<<"/", "/", "e", "/", "a">>, <<"/", "/", "a">>, <<"/", "/">>, <<"e">>}

DomainLocaleElems == LocaleRecords \cup {Str(<<"e">>), Null}

DomainLocaleLists(n) ==
  {Arr(s) : s \in SeqsUpTo(DomainLocaleElems, n)} \cup {Undefined}

\* The ambient context of a getLocaleDomain call.
Env(browser, href, xForwardedHost, host, forwardedHost, locales) ==
  [browser |-> browser, href |-> href, xForwardedHost |-> xForwardedHost,
   host |-> host, forwardedHost |-> forwardedHost, locales |-> locales]

SyncFlags == {True, False, Undefined}

VuexConfigs ==
  {Undefined, False}
    \cup {Obj([moduleName |-> Str(<<"a">>), syncLocale |-> sl, syncMessages |-> sm]) :
            sl \in SyncFlags, sm \in SyncFlags}

Stores == {Undefined, Obj(<<>>)}

SyncLocales == {Undefined, Null, Str(<<"e">>), Str(<<"a">>)}
SyncMessages == {Undefined, Null, Obj(<<>>)}

Idle ==
  /\ vuex = Undefined
  /\ store = Undefined
  /\ dispatched = <<>>
  /\ settled = <<>>

InitCodes ==
  /\ call \in {[fn |-> "getLocaleCodes", locales |-> l] : l \in LocaleLists(MaxLocales)}
  /\ ret = Undefined
  /\ pc = "call"
  /\ Idle

CallGetLocaleCodes ==
  /\ pc = "call"
  /\ call.fn = "getLocaleCodes"
  /\ ret' = getLocaleCodes(call.locales)
  /\ pc' = "returned"
  /\ UNCHANGED <<call, vuex, store, dispatched, settled>>

\* Calls that exercise the lookup key: every chunk name up to MaxChunkLen.
InitPageKeys ==
  \E c \in StrSet(MaxChunkLen),
     n \in {Undefined, Str(<<"e">>)},
     p \in {Obj([k \in {<<"a">>} |-> False]),
            Obj([k \in {<<"e">>} |-> False]),
            Obj([k \in {<<"a">>} |-> Obj([k2 \in {<<"a">>} |-> False])])},
     d \in {Str(<<"e">>), Str(<<"a", "/", "e">>)} :
    call = PageCall(Route(Str(c), n, Undefined), p,
                    Arr(<<Str(<<"e">>), Str(<<"a">>)>>), d, Str(<<"e">>))

\* Calls that exercise the per-page entries, with malformed arguments too.
InitPageEntries ==
  \E r \in {Undefined} \cup
            {Route(c, n, Undefined) :
               c \in {Undefined, Str(<<>>), Str(<<"E", "/", "a">>)},
               n \in {Undefined, Str(<<"a">>)}},
     p \in PagesMaps \cup {Undefined},
     l \in PageLocaleLists(MaxLocales),
     d \in {Str(c) : c \in Codes} :
    call = PageCall(r, p, l, Str(<<"e">>), d)

InitPage ==
  /\ InitPageKeys \/ InitPageEntries
  /\ ret = Undefined
  /\ pc = "call"
  /\ Idle

CallGetPageOptions ==
  /\ pc = "call"
  /\ call.fn = "getPageOptions"
  /\ ret' = getPageOptions(call.route, call.pages, call.locales,
                           call.pagesDir, call.defaultLocale)
  /\ pc' = "returned"
  /\ UNCHANGED <<call, vuex, store, dispatched, settled>>

\* Routes with a name (every name up to MaxNameLen), with or without a path.
InitRouteNamed ==
  \E n \in StrSet(MaxNameLen) \ {<<>>},
     p \in {Undefined, Str(<<"/", "e", "/">>)},
     s \in Separators, d \in Suffixes, l \in RouteLocaleLists(MaxLocales) :
    call = RouteCall(Route(Undefined, Str(n), p), s, d, l)

\* Routes without a name (every path up to MaxNameLen), and no route at all.
InitRouteUnnamed ==
  \/ \E n \in {Undefined, Str(<<>>)}, p \in StrSet(MaxNameLen),
        d \in {Undefined, Str(<<"a">>)}, l \in RouteLocaleLists(MaxLocales) :
       call = RouteCall(Route(Undefined, n, Str(p)), Str(<<"-">>), d, l)
  \/ \E r \in {Undefined, Obj(<<>>)}, s \in {Undefined, Str(<<"-">>)},
        l \in RouteLocaleLists(MaxLocales) :
       call = RouteCall(r, s, Undefined, l)

InitRoute ==
  /\ InitRouteNamed \/ InitRouteUnnamed
  /\ ret = Undefined
  /\ pc = "call"
  /\ Idle

CallGetLocaleFromRoute ==
  /\ pc = "call"
  /\ call.fn = "getLocaleFromRoute"
  /\ ret' = getLocaleFromRoute(call.route, call.routesNameSeparator,
                               call.defaultLocaleRouteNameSuffix, call.locales)
  /\ pc' = "returned"
  /\ UNCHANGED <<call, vuex, store, dispatched, settled>>

SpecRoute == InitRoute /\ [][CallGetLocaleFromRoute]_vars

\* Server context: the request's headers decide.
InitDomainServer ==
  \E x \in Hosts, h \in Hosts, f \in {True, False, Undefined},
     l \in DomainLocaleLists(MaxLocales) :
    call = [fn |-> "getLocaleDomain", env |-> Env(FALSE, <<>>, x, h, f, l)]

\* Document context: the location decides.
InitDomainBrowser ==
  \E u \in Hrefs, f \in {True, False}, l \in DomainLocaleLists(MaxLocales) :
    call = [fn |-> "getLocaleDomain",
            env |-> Env(TRUE, u, Undefined, Undefined, f, l)]

InitDomain ==
  /\ InitDomainServer \/ InitDomainBrowser
  /\ ret = Undefined
  /\ pc = "call"
  /\ Idle

CallGetLocaleDomain ==
  /\ pc = "call"
  /\ call.fn = "getLocaleDomain"
  /\ ret' = getLocaleDomain(call.env)
  /\ pc' = "returned"
  /\ UNCHANGED <<call, vuex, store, dispatched, settled>>

SpecDomain == InitDomain /\ [][CallGetLocaleDomain]_vars

InitSync ==
  /\ call \in {[fn |-> "syncVuex", locale |-> l, messages |-> m] :
                 l \in SyncLocales, m \in SyncMessages}
  /\ vuex \in VuexConfigs
  /\ store \in Stores
  /\ ret = Undefined
  /\ pc = "call"
  /\ dispatched = <<>>
  /\ settled = <<>>

NextSync ==
  \/ SyncVuexStart
  \/ LocaleDispatchResolves
  \/ LocaleDispatchRejects
  \/ MessagesDispatchResolves
  \/ MessagesDispatchRejects

SpecSync == InitSync /\ [][NextSync]_vars

Init == InitCodes \/ InitPage \/ InitRoute \/ InitDomain \/ InitSync

Next ==
  \/ CallGetLocaleCodes
  \/ CallGetPageOptions
  \/ CallGetLocaleFromRoute
  \/ CallGetLocaleDomain
  \/ NextSync

Spec == Init /\ [][Next]_vars

SpecPage == InitPage /\ [][CallGetPageOptions]_vars

SpecCodes == InitCodes /\ [][CallGetLocaleCodes]_vars

(***************************************************************************)
(* Claims about getPageOptions.                                            *)
(***************************************************************************)
\* A call of getPageOptions has returned, and its arguments have the shape
\* the page-options resolver is specified for: a route descriptor, a
\* page-options map and a locale list the code extractor accepts.
PageReturned ==
  /\ pc = "returned"
  /\ call.fn = "getPageOptions"
  /\ call.route.t = "object"
  /\ call.pages.t = "object"
  /\ getLocaleCodes(call.locales) # Throw

\* out is chunk without the first occurrence of lit (any letter case), or
\* chunk itself when lit does not occur in it.
StrippedOnce(chunk, lit, out) ==
  \/ /\ \A i \in 0..Len(chunk) : ~LitAt(chunk, i, lit)
     /\ out = chunk
  \/ \E i \in 0..(Len(chunk) - Len(lit)) :
       /\ LitAt(chunk, i, lit)
       /\ \A j \in 0..(i - 1) : ~LitAt(chunk, j, lit)
       /\ Len(out) = Len(chunk) - Len(lit)
       /\ \A k \in 1..Len(out) :
            out[k] = IF k <= i THEN chunk[k] ELSE chunk[k + Len(lit)]

\* key is the lookup key of the call: the stripped chunkName when the route
\* has a non-empty chunkName, the route's name otherwise.
IsLookupKey(key) ==
  LET chunk == call.route.f.chunkName
  IN  IF chunk.t = "string" /\ chunk.v # <<>>
      THEN /\ key.t = "string"
           /\ StrippedOnce(chunk.v, call.pagesDir.v \o <<"/">>, key.v)
      ELSE key = call.route.f.name

\* Every string obtained from the chunk name by deleting at most one
\* window of characters, and the route's name.
KeyCandidates ==
  LET chunk == call.route.f.chunkName
      cuts == IF chunk.t # "string" THEN {}
              ELSE {Str(SubSeq(chunk.v, 1, i) \o SubSeq(chunk.v, j + 1, Len(chunk.v))) :
                      i \in 0..Len(chunk.v), j \in 0..Len(chunk.v)}
  IN  {call.route.f.name} \cup cuts

\* The page-options map's value under key; NoEntry when it has none.
NoEntry == [t |-> "absent"]
StoredUnder(key) ==
  IF key.t = "string" /\ key.v \in DOMAIN call.pages.f
  THEN call.pages.f[key.v]
  ELSE NoEntry

\* C3: getPageOptions returns false if and only if the page-options map's
\* value under the lookup key is exactly false, and returns every configured
\* code with an empty paths mapping when the map has no entry for the key.
C3_FalseIffDisabled ==
  PageReturned =>
    \A key \in KeyCandidates :
      IsLookupKey(key) =>
        /\ (ret = False) <=> (StoredUnder(key) = False)
        /\ StoredUnder(key) = NoEntry =>
             ret = Options(getLocaleCodes(call.locales).v, <<>>)

\* C3 witness: false was returned for a chunk name from which the pages
\* directory was stripped.
C3_Witness ==
  /\ PageReturned
  /\ ret = False
  /\ Truthy(call.route.f.chunkName)
  /\ \E key \in DOMAIN call.pages.f :
       /\ IsLookupKey(Str(key))
       /\ key # call.route.f.chunkName.v

\* The per-page entry of the call, when the page has one.
PageEntry == Index(call.pages, ChunkName(call.route, call.pagesDir))

\* The per-page value of a locale code: NoEntry when the map has none.
EntryOf(code) ==
  IF code.t = "string" /\ code.v \in DOMAIN PageEntry.f
  THEN PageEntry.f[code.v]
  ELSE NoEntry

\* Positions of the configured codes that the page does not disable.
KeptPositions ==
  LET codes == getLocaleCodes(call.locales).v
  IN  {i \in 1..Len(codes) : EntryOf(codes[i]) # False}

\* C4: with a per-page entry map, the returned locales are the configured
\* codes whose entry is not false, in configuration order, and every key of
\* the returned paths is a returned locale.
C4_LocalesFiltered ==
  (PageReturned /\ PageEntry.t = "object") =>
    LET codes == getLocaleCodes(call.locales).v
    IN  /\ ret.t = "options"
        /\ Len(ret.locales) = Cardinality(KeptPositions)
        /\ \A k \in 1..Len(ret.locales) :
             \E i \in KeptPositions :
               /\ Cardinality({j \in KeptPositions : j <= i}) = k
               /\ ret.locales[k] = codes[i]
        /\ \A l \in DOMAIN ret.paths :
             \E k \in 1..Len(ret.locales) : ret.locales[k] = l

\* C4 witness: one configured code is disabled for the page, another is
\* kept, and a path is returned.
C4_Witness ==
  /\ PageReturned
  /\ PageEntry.t = "object"
  /\ Len(getLocaleCodes(call.locales).v) = 2
  /\ KeptPositions = {2}
  /\ DOMAIN ret.paths # {}

\* C9: an enabled locale gets its own per-page string; failing that, the
\* default locale's per-page string; failing that, no path entry.
C9_PathFallback ==
  (PageReturned /\ PageEntry.t = "object") =>
    /\ ret.t = "options"
    /\ \A k \in 1..Len(ret.locales) :
         LET l == ret.locales[k]
             own == EntryOf(l)
             dflt == EntryOf(call.defaultLocale)
         IN  IF own.t = "string"
             THEN l \in DOMAIN ret.paths /\ ret.paths[l] = own
             ELSE IF dflt.t = "string"
             THEN l \in DOMAIN ret.paths /\ ret.paths[l] = dflt
             ELSE l \notin DOMAIN ret.paths
    /\ EntryOf(call.defaultLocale) = False =>
         \A l \in DOMAIN ret.paths : ret.paths[l] = EntryOf(l)

\* C9 witness: a locale without a string of its own took the default
\* locale's string, while another locale kept its own.
C9_Witness ==
  /\ PageReturned
  /\ PageEntry.t = "object"
  /\ \E l \in DOMAIN ret.paths :
       /\ l # call.defaultLocale
       /\ EntryOf(l).t # "string"
       /\ ret.paths[l] = EntryOf(call.defaultLocale)

(***************************************************************************)
(* Claims about getLocaleCodes.                                            *)
(***************************************************************************)
\* C6: getLocaleCodes decides by the first element only: an empty list for
\* an empty or undefined list; the input list itself when the first element
\* is a string; every element's code field, in order, when the first
\* element is a record with a string code; an empty list in every other
\* case.
C6_FirstElementDecides ==
  (pc = "returned" /\ call.fn = "getLocaleCodes") =>
    LET l == call.locales
    IN  IF l.t = "undefined" \/ l.v = <<>> THEN ret = Arr(<<>>)
        ELSE IF l.v[1].t = "string" THEN ret = l
        ELSE IF l.v[1].t = "object" /\ "code" \in DOMAIN l.v[1].f
                /\ l.v[1].f.code.t = "string"
        THEN (\A i \in 1..Len(l.v) : l.v[i].t = "object" /\ "code" \in DOMAIN l.v[i].f)
               => ret = Arr([i \in 1..Len(l.v) |-> l.v[i].f.code])
        ELSE ret = Arr(<<>>)

(***************************************************************************)
(* Claims about every utility.                                             *)
(***************************************************************************)
\* C5: no utility function throws: getLocaleCodes, getPageOptions,
\* getLocaleFromRoute and getLocaleDomain return a result for every input
\* shape, malformed or absent ones included.
C5_NeverThrows ==
  (pc = "returned" /\ call.fn \in {"getLocaleCodes", "getPageOptions",
                                   "getLocaleFromRoute", "getLocaleDomain"})
    => ret # Throw

(***************************************************************************)
(* Claims about getLocaleFromRoute.                                        *)
(***************************************************************************)
\* A call of getLocaleFromRoute has returned, for a route descriptor (or
\* none) and a locale list the code extractor accepts.
RouteReturned ==
  /\ pc = "returned"
  /\ call.fn = "getLocaleFromRoute"
  /\ call.route.t \in {"object", "undefined"}
  /\ getLocaleCodes(call.locales) # Throw

\* The configured codes of the call, as strings.
ConfiguredCodes ==
  LET codes == getLocaleCodes(call.locales).v
  IN  {codes[i].v : i \in {j \in 1..Len(codes) : codes[j].t = "string"}}

RouteField(name) ==
  IF call.route.t = "object" /\ name \in DOMAIN call.route.f
  THEN call.route.f[name] ELSE Undefined

NonEmptyString(x) == x.t = "string" /\ x.v # <<>>

SepOfCall ==
  IF call.routesNameSeparator.t = "string" THEN call.routesNameSeparator.v ELSE <<>>
SuffixOfCall ==
  IF call.defaultLocaleRouteNameSuffix.t = "string"
  THEN call.defaultLocaleRouteNameSuffix.v ELSE <<>>

\* s ends with x, ignoring case.
EndsWithFold(s, x) ==
  /\ Len(x) <= Len(s)
  /\ FoldStr(SubSeq(s, Len(s) - Len(x) + 1, Len(s))) = FoldStr(x)

\* s starts with x, ignoring case.
StartsWithFold(s, x) ==
  /\ Len(x) <= Len(s)
  /\ FoldStr(SubSeq(s, 1, Len(x))) = FoldStr(x)

\* The name ends with separator + c, or with separator + c + separator +
\* default suffix.
NameNames(name, c) ==
  \/ EndsWithFold(name, SepOfCall \o c)
  \/ EndsWithFold(name, SepOfCall \o c \o SepOfCall \o SuffixOfCall)

PathNames(path, c) == StartsWithFold(path, <<"/">> \o c \o <<"/">>)

\* C7: with a name, the result is a locale code the name ends with (after
\* the separator, before the optional separator + default suffix), whatever
\* its letter case in the name, and null when the name has no such ending;
\* without a name, the same for a path that starts with '/' + code + '/';
\* null when the route has neither.
C7_RouteLocale ==
  RouteReturned =>
    LET name == RouteField("name")
        path == RouteField("path")
    IN  IF NonEmptyString(name)
        THEN IF \E c \in ConfiguredCodes : NameNames(name.v, c)
             THEN /\ ret.t = "string"
                  /\ \E c \in ConfiguredCodes :
                       NameNames(name.v, c) /\ FoldStr(ret.v) = FoldStr(c)
             ELSE ret = Null
        ELSE IF NonEmptyString(path)
        THEN IF \E c \in ConfiguredCodes : PathNames(path.v, c)
             THEN /\ ret.t = "string"
                  /\ \E c \in ConfiguredCodes :
                       PathNames(path.v, c) /\ FoldStr(ret.v) = FoldStr(c)
             ELSE ret = Null
        ELSE ret = Null

\* C10: the value returned by getLocaleFromRoute is null or exactly one of
\* the codes of getLocaleCodes(locales).
C10_ReturnsConfiguredCode ==
  RouteReturned =>
    \/ ret = Null
    \/ ret.t = "string" /\ ret.v \in ConfiguredCodes

(***************************************************************************)
(* Claims about getLocaleDomain.                                           *)
(***************************************************************************)
\* A call of getLocaleDomain has returned in the server context, for a
\* configured locale list of records or code strings.
DomainReturned ==
  /\ pc = "returned"
  /\ call.fn = "getLocaleDomain"
  /\ ~call.env.browser
  /\ call.env.locales.t = "array"
  /\ \A i \in 1..Len(call.env.locales.v) :
       call.env.locales.v[i].t \in {"object", "string"}

DomainOf(l) ==
  IF l.t = "object" /\ "domain" \in DOMAIN l.f THEN l.f.domain ELSE Undefined
CodeOf(l) ==
  IF l.t = "object" /\ "code" \in DOMAIN l.f THEN l.f.code ELSE Undefined

\* The result the resolver owes for hostname: the code of the first record
\* of the list whose domain is hostname, null when there is none or the
\* hostname is empty or absent.
ResolvesHost(hostname) ==
  LET ls == call.env.locales.v
      hits == {i \in 1..Len(ls) : DomainOf(ls[i]) = hostname}
  IN  IF NonEmptyString(hostname) /\ hits # {}
      THEN \E i \in hits : (\A j \in hits : i <= j) /\ ret = CodeOf(ls[i])
      ELSE ret = Null

ForwardedHostEnabled == call.env.forwardedHost = True

Issued(action) == {k \in 1..Len(dispatched) : dispatched[k].type[2] = action}

\* C1: when both dispatches are issued, 'setMessages' is issued after
\* 'setLocale' has resolved; when the 'setLocale' dispatch rejects, syncVuex
\* rejects with the same failure and 'setMessages' is never issued.
C1_LocaleThenMessages ==
  call.fn = "syncVuex" =>
    /\ (Issued("setLocale") # {} /\ Issued("setMessages") # {}) =>
         /\ Issued("setLocale") = {1}
         /\ Issued("setMessages") = {2}
         /\ Len(settled) >= 1
         /\ settled[1] = Resolved
    /\ (Issued("setLocale") # {} /\ Len(settled) >= 1 /\ settled[1].t = "rejected") =>
         /\ pc = "returned"
         /\ ret = settled[1]
         /\ Issued("setMessages") = {}

\* C1 witness: the 'setLocale' dispatch was rejected in a call that would
\* otherwise have synchronized the messages.
C1_Witness ==
  /\ call.fn = "syncVuex"
  /\ Issued("setLocale") = {1}
  /\ Len(settled) = 1
  /\ settled[1].t = "rejected"
  /\ call.messages.t = "object"
  /\ vuex.t = "object"
  /\ vuex.f.syncMessages = True

Enabled(flag) == vuex.t = "object" /\ flag \in DOMAIN vuex.f /\ vuex.f[flag] = True

\* C2: a 'setLocale' dispatch is issued only if the store and the sync
\* configuration are present, the locale argument is non-null and
\* syncLocale is enabled; likewise 'setMessages' with the messages argument
\* and syncMessages; with both flags disabled a call with non-null
\* arguments issues no dispatch and resolves.
C2_DispatchOnlyWhenEnabled ==
  call.fn = "syncVuex" =>
    /\ \A k \in Issued("setLocale") :
         /\ vuex.t = "object" /\ store.t = "object"
         /\ call.locale.t \notin {"null", "undefined"}
         /\ Enabled("syncLocale")
         /\ dispatched[k].payload = call.locale
    /\ \A k \in Issued("setMessages") :
         /\ vuex.t = "object" /\ store.t = "object"
         /\ call.messages.t \notin {"null", "undefined"}
         /\ Enabled("syncMessages")
         /\ dispatched[k].payload = call.messages
    /\ (pc # "call" /\ ~Enabled("syncLocale") /\ ~Enabled("syncMessages")) =>
         /\ dispatched = <<>>
         /\ pc = "returned"
         /\ ret = Resolved

\* C2 witness: a call with a locale and messages has resolved without a
\* dispatch, the store and the configuration being present and both flags
\* disabled.
C2_Witness ==
  /\ call.fn = "syncVuex"
  /\ pc = "returned"
  /\ vuex.t = "object" /\ store.t = "object"
  /\ vuex.f.syncLocale = False /\ vuex.f.syncMessages = False
  /\ call.locale.t = "string" /\ call.messages.t = "object"
  /\ dispatched = <<>>
  /\ ret = Resolved

====
